---- MODULE Spec2Model ----
(***************************************************************************)
(* Model of rendertron's FileCache (src/src/file-cache.ts): an LRU index   *)
(* of cache entries kept in memory and in index.json, one content blob     *)
(* per entry, TTL expiry checked on lookup, and the Koa middleware         *)
(* handleRequest that looks up, renders on a miss and stores on status     *)
(* 200.                                                                    *)
(*                                                                         *)
(* URLs are sequences of tokens, so that the regular expression of         *)
(* cacheContent and Koa's query parsing act on their structure.            *)
(* Time is in milliseconds.  JSON text is represented by the value it      *)
(* parses to: a Date is written as an ISO string and stays a string        *)
(* after JSON.parse.                                                       *)
(***************************************************************************)
EXTENDS Integers, Sequences, FiniteSets, TLC

VARIABLES store, index, files, pending, now, nextId, recency, failed, last

vars == <<store, index, files, pending, now, nextId, recency, failed, last>>

----------------------------------------------------------------------------
(* Program constants.  CACHE_MAX_ENTRIES is 1000 in the source; the model  *)
(* runs the same code with a small capacity.                               *)

CACHE_MAX_ENTRIES == 2

FILE_CACHE_TTL == 86400000

----------------------------------------------------------------------------
(* Bounds of the model.                                                    *)

\* number of uuids the model draws (calls of cacheContent)
MaxIds == 3

\* the clock is read at 0 and at FILE_CACHE_TTL + 0 .. FILE_CACHE_TTL + MaxSlack
MaxSlack == 1

\* number of requests that can be awaiting next() at once
MaxInFlight == 1

\* number of kinds of file write (blob, index, promote) that may fail in a run
MaxFaults == 1
\* number of handlers interleaved at await next() in SpecConc
MaxHandlers == 3
\* tokens of a URL after its path, for the normalisation of keys
MaxTokens == 3

----------------------------------------------------------------------------
(* Inputs.                                                                 *)

\* the request URLs (ctx.url): two plain ones, one that asks for a refresh of
\* /a, and one whose normalised form still carries refreshCache=true
Urls ==
  { <<"/a">>, <<"/b">>,
    <<"/a", "?", "refreshCache=true">>,
    <<"/a", "?", "refreshCache=true", "&", "refreshCache=true">> }

\* request URLs whose normalised form differs from the URL although Koa sees
\* no refreshCache parameter in them: a trailing "?", and the parameter in
\* another letter case
KeyUrls ==
  { <<"/a">>,
    <<"/a", "?">>,
    <<"/a", "?", "REFRESHCACHE=TRUE">> }

AllUrls == Urls \cup KeyUrls

\* what the k-th call of next() leaves in ctx.response.headers and ctx.body.
\* The cache never inspects headers or bodies, so each render's output is a
\* value of its own.
Render(k) == [headers |-> <<"headers", k>>, body |-> <<"body", k>>]

Statuses == {200, 500}

\* the instants at which the clock is read: the time of the first store,
\* the last instant an entry saved then is fresh, and the instants after it
Instants == {0} \cup {FILE_CACHE_TTL + k : k \in 0..MaxSlack}

----------------------------------------------------------------------------
(* Helpers on sequences.                                                   *)

\* Array.prototype.splice(i, 1) with 1-based i
Splice(s, i) == [k \in 1..(Len(s) - 1) |-> IF k < i THEN s[k] ELSE s[k + 1]]

\* Array.prototype.pop() in the place of shift()
ShiftPop(s) == SubSeq(s, 1, Len(s) - 1)

\* Array.prototype.shift(): the array without its first element
Shift(s) == Splice(s, 1)

\* Array.prototype.findIndex, 1-based, 0 when nothing matches (-1 in JS)
FindIndex(s, key) ==
  IF \E k \in 1..Len(s) : s[k].url = key
  THEN CHOOSE k \in 1..Len(s) :
         /\ s[k].url = key
         /\ \A j \in 1..(k - 1) : s[j].url # key
  ELSE 0

FileIds(s) == [k \in 1..Len(s) |-> s[k].fileId]

Range(s) == {s[k] : k \in 1..Len(s)}

\* position of x in s, 0 when absent
PosOf(s, x) ==
  IF \E k \in 1..Len(s) : s[k] = x
  THEN CHOOSE k \in 1..Len(s) : s[k] = x
  ELSE 0

\* s without every occurrence of x
Without(s, x) == SelectSeq(s, LAMBDA y : y # x)

----------------------------------------------------------------------------
(* Key normalisation of cacheContent, lines 47-53.                         *)

\* tokens matched by refreshCache=(?:true|false) under the /i flag
RefreshTokens == {"refreshCache=true", "refreshCache=false", "REFRESHCACHE=TRUE"}

\* does /&?refreshCache=(?:true|false)&?/i match starting at position i
MatchesAt(u, i) ==
  \/ u[i] \in RefreshTokens
  \/ /\ u[i] = "&"
     /\ i + 1 <= Len(u)
     /\ u[i + 1] \in RefreshTokens

\* String.prototype.replace with a non-global regex: the leftmost match goes
ReplaceRefresh(u) ==
  IF \E i \in 1..Len(u) : MatchesAt(u, i)
  THEN LET i == CHOOSE k \in 1..Len(u) :
                  MatchesAt(u, k) /\ \A j \in 1..(k - 1) : ~MatchesAt(u, j)
           p == IF u[i] = "&" THEN i + 1 ELSE i
           e == IF p + 1 <= Len(u) /\ u[p + 1] = "&" THEN p + 1 ELSE p
       IN  [k \in 1..(Len(u) - (e - i + 1)) |-> IF k < i THEN u[k] ELSE u[k + (e - i + 1)]]
  ELSE u

NormalizeNoStrip(u) == ReplaceRefresh(u)

Normalize(u) ==
  LET r == ReplaceRefresh(u)
  IN  IF Len(r) > 0 /\ r[Len(r)] = "?"
      THEN SubSeq(r, 1, Len(r) - 1)
      ELSE r

\* ctx.query.refreshCache is truthy: the query string (after the first "?")
\* has a parameter named exactly refreshCache with a non-empty value
QueryRefreshCache(u) ==
  \E q \in 1..Len(u) :
    /\ u[q] = "?"
    /\ \A j \in 1..(q - 1) : u[j] # "?"
    /\ \E k \in (q + 1)..Len(u) : u[k] \in {"refreshCache=true", "refreshCache=false"}

----------------------------------------------------------------------------
(* JSON and dates.                                                         *)

\* new Date(): a Date object holding the current time
NewDate(t) == [rep |-> "date", t |-> t]

\* new Date(x).getTime() for a Date or for the ISO string of one
GetTime(saved) == saved.t

\* JSON.stringify(store): Date.prototype.toJSON writes an ISO string
Stringify(s) ==
  [k \in 1..Len(s) |->
     [saved |-> [rep |-> "iso", t |-> s[k].saved.t],
      headers |-> s[k].headers,
      fileId |-> s[k].fileId,
      url |-> s[k].url]]

\* JSON.parse(indexFile): strings stay strings
Parse(text) == text

----------------------------------------------------------------------------
(* The index file.  st is "ok" (a JSON array), "absent" (ENOENT) or        *)
(* "corrupt" (unreadable or not JSON).                                     *)

IndexOf(s) == [st |-> "ok", entries |-> Stringify(s), dir |-> TRUE]

\* a file write that either succeeds or throws and leaves the file as it was
\* a failing write that leaves index.json truncated
WriteIndexTruncate(idx, s, ok) == IF ok THEN IndexOf(s) ELSE IndexOf(<<>>)

WriteIndex(idx, s, ok) == IF ok THEN IndexOf(s) ELSE idx

----------------------------------------------------------------------------
(* FileCache.cacheContent, lines 46-74.  id is the uuid drawn at line 55,  *)
(* blobOk and idxOk say whether the writes of lines 58 and 69 succeed.     *)

NewEntry(key, headers, id, t) ==
  [saved |-> NewDate(t), headers |-> headers, fileId |-> id, url |-> Normalize(key)]

\* the eviction test with > in the place of >=
EvictOffByOne(st) == IF Len(st) > CACHE_MAX_ENTRIES THEN Shift(st) ELSE st

\* the eviction of lines 60-62 shifting twice
EvictTwo(st) == IF Len(st) >= CACHE_MAX_ENTRIES THEN Shift(Shift(st)) ELSE st

\* lines 60-62: the store after the eviction test
Evict(st) == IF Len(st) >= CACHE_MAX_ENTRIES THEN Shift(st) ELSE st

\* the write of line 58 that reports success and leaves no file
WriteBlobLost(fl, id, payload, ok) == fl

\* line 58: the files after writeFileSync of <fileId>.html
WriteBlob(fl, id, payload, ok) ==
  IF ok THEN fl \cup {[fileId |-> id, body |-> payload]} ELSE fl

\* cacheContent without the try/catch of lines 57-73
cacheContentUncaught(st, idx, fl, key, headers, payload, id, t, blobOk, idxOk) ==
  IF ~blobOk
  THEN [store |-> st, index |-> idx, files |-> WriteBlob(fl, id, payload, FALSE),
        stored |-> <<>>, thrown |-> TRUE]
  ELSE LET e  == NewEntry(key, headers, id, t)
           s2 == Append(Evict(st), e)
       IN  [store   |-> s2,
            index   |-> WriteIndex(idx, s2, idxOk),
            files   |-> WriteBlob(fl, id, payload, TRUE),
            stored  |-> <<e>>,
            thrown  |-> ~idxOk]

\* thrown says whether an error leaves the function: the catch of line 71
\* takes the errors of both writes
cacheContent(st, idx, fl, key, headers, payload, id, t, blobOk, idxOk) ==
  IF ~blobOk
  THEN [store |-> st, index |-> idx, files |-> WriteBlob(fl, id, payload, FALSE),
        stored |-> <<>>, thrown |-> FALSE]
  ELSE LET e  == NewEntry(key, headers, id, t)
           s2 == Append(Evict(st), e)
       IN  [store   |-> s2,
            index   |-> WriteIndex(idx, s2, idxOk),
            files   |-> WriteBlob(fl, id, payload, TRUE),
            stored  |-> <<e>>,
            thrown  |-> FALSE]

----------------------------------------------------------------------------
(* FileCache.getCachedContent, lines 76-98.  bypass is ctx.query.refresh-  *)
(* Cache, idxOk says whether the write of line 89 succeeds.                *)

\* line 85 with <= in the place of <
IsEntryExpiredAtTtl(e, t) == GetTime(e.saved) + FILE_CACHE_TTL <= t

\* line 85
IsEntryExpired(e, t) == GetTime(e.saved) + FILE_CACHE_TTL < t

Miss(st, idx) == [store |-> st, index |-> idx, found |-> <<>>, res |-> <<>>]

\* lines 80-97 without the splice and the push: a hit leaves the order alone
lookupEntryNoPromote(st, idx, key, t, idxOk) ==
  LET i == FindIndex(st, key)
  IN  IF i = 0
      THEN Miss(st, idx)
      ELSE IF ~IsEntryExpired(st[i], t)
           THEN [store |-> st, index |-> WriteIndex(idx, st, idxOk),
                 found |-> <<st[i]>>, res |-> <<st[i]>>]
           ELSE [store |-> Splice(st, i), index |-> idx, found |-> <<st[i]>>, res |-> <<>>]

\* lines 80-97 with the splice done only for an entry that is not expired
lookupEntryKeepExpired(st, idx, key, t, idxOk) ==
  LET i == FindIndex(st, key)
  IN  IF i = 0
      THEN Miss(st, idx)
      ELSE IF ~IsEntryExpired(st[i], t)
           THEN [store |-> Append(Splice(st, i), st[i]),
                 index |-> WriteIndex(idx, Append(Splice(st, i), st[i]), idxOk),
                 found |-> <<st[i]>>, res |-> <<st[i]>>]
           ELSE [store |-> st, index |-> idx, found |-> <<st[i]>>, res |-> <<>>]

\* lines 80-97: find the entry, take it out, and put it back at the end
\* unless it is expired
\* lines 80-97 with the hit setting saved to the time of the lookup
lookupEntryTouch(st, idx, key, t, idxOk) ==
  LET i == FindIndex(st, key)
  IN  IF i = 0
      THEN Miss(st, idx)
      ELSE LET e    == st[i]
               rest == Splice(st, i)
               e2   == [e EXCEPT !.saved = NewDate(t)]
           IN  IF ~IsEntryExpired(e, t)
               THEN [store |-> Append(rest, e2),
                     index |-> WriteIndex(idx, Append(rest, e2), idxOk),
                     found |-> <<e>>,
                     res   |-> <<e2>>]
               ELSE [store |-> rest, index |-> idx, found |-> <<e>>, res |-> <<>>]

lookupEntry(st, idx, key, t, idxOk) ==
  LET i == FindIndex(st, key)
  IN  IF i = 0
      THEN Miss(st, idx)
      ELSE LET e    == st[i]
               rest == Splice(st, i)
           IN  IF ~IsEntryExpired(e, t)
               THEN [store |-> Append(rest, e),
                     index |-> WriteIndex(idx, Append(rest, e), idxOk),
                     found |-> <<e>>,
                     res   |-> <<e>>]
               ELSE [store |-> rest, index |-> idx, found |-> <<e>>, res |-> <<>>]

\* lines 76-98 without the test of lines 77-79
getCachedContentNoBypass(st, idx, bypass, key, t, idxOk) ==
  lookupEntry(st, idx, key, t, idxOk)

getCachedContent(st, idx, bypass, key, t, idxOk) ==
  IF bypass THEN Miss(st, idx) ELSE lookupEntry(st, idx, key, t, idxOk)

----------------------------------------------------------------------------
(* FileCache.getStore, lines 104-119.                                      *)

getStoreSwallow(idx) ==
  IF idx.st = "ok"
  THEN [store |-> Parse(idx.entries), index |-> idx, thrown |-> FALSE]
  ELSE IF idx.st = "absent"
       THEN [store |-> <<>>, index |-> IndexOf(<<>>), thrown |-> FALSE]
       ELSE [store |-> <<>>, index |-> idx, thrown |-> FALSE]

getStore(idx) ==
  IF idx.st = "ok"
  THEN [store |-> Parse(idx.entries), index |-> idx, thrown |-> FALSE]
  ELSE IF idx.st = "absent"
       THEN [store |-> <<>>, index |-> IndexOf(<<>>), thrown |-> FALSE]
       ELSE [store |-> <<>>, index |-> idx, thrown |-> TRUE]

----------------------------------------------------------------------------
(* State.                                                                  *)
(*   store     this.store                                                  *)
(*   index     index.json                                                  *)
(*   files     the content blobs <fileId>.html                             *)
(*   pending   per URL, the number of handlers awaiting next() for it      *)
(*   now       the clock                                                   *)
(*   nextId    number of uuids drawn so far                                *)
(* History:                                                                *)
(*   recency   the fileIds in the order of their most recent store or      *)
(*             non-expired hit, oldest first                               *)
(*   failed    the kinds of file write that have failed so far             *)
(*   last      the last step, its inputs and its outcome                   *)

Quiet ==
  [op |-> "init", url |-> <<>>, bypass |-> FALSE,
   found |-> <<>>, res |-> <<>>, served |-> <<>>, evicted |-> <<>>,
   stored |-> <<>>, ok |-> TRUE, status |-> 0,
   prior |-> <<>>, viaRestart |-> FALSE, keys |-> <<>>,
   thrown |-> FALSE]

\* the store that completed just before the operation now starting, if the
\* last operation was one whose writes all succeeded (a restart in between
\* carries it over)
PriorStore ==
  IF last.op = "store" /\ last.ok /\ last.stored # <<>>
  THEN <<[key |-> last.url, entry |-> last.stored[1]]>>
  ELSE IF last.op = "restart" THEN last.prior ELSE <<>>

RECURSIVE SumOver(_, _)
SumOver(f, S) ==
  IF S = {} THEN 0
  ELSE LET x == CHOOSE y \in S : TRUE IN f[x] + SumOver(f, S \ {x})

InFlight == SumOver(pending, AllUrls)

\* the entries of old that are not in new, in their order in old
Gone(old, new) == SelectSeq(old, LAMBDA e : e \notin Range(new))

\* a write may fail only while the run's budget of failing kinds allows it
MayFail(kind) == Cardinality(failed \cup {kind}) <= MaxFaults

Init ==
  /\ store = getStore([st |-> "absent", entries |-> <<>>, dir |-> FALSE]).store
  /\ index = getStore([st |-> "absent", entries |-> <<>>, dir |-> FALSE]).index
  /\ files = {}
  /\ pending = [u \in AllUrls |-> 0]
  /\ now = 0
  /\ nextId = 0
  /\ recency = <<>>
  /\ failed = {}
  /\ last = Quiet

----------------------------------------------------------------------------
(* handleRequest, lines 121-137: the lookup, and the read of the blob on   *)
(* a hit.  The handler either responds or goes on to await next().         *)

ReadBlob(fl, id, readOk) ==
  IF readOk /\ \E f \in fl : f.fileId = id
  THEN <<(CHOOSE f \in fl : f.fileId = id).body>>
  ELSE <<>>

\* lines 124-125: the key handleRequest hands to getCachedContent
LookupKey(u) == u

LookupAt(limit, u, idxOk, readOk) ==
  /\ InFlight < limit
  /\ LET r == getCachedContent(store, index, QueryRefreshCache(u), LookupKey(u), now, idxOk)
         hit == r.res # <<>>
         body == IF hit THEN ReadBlob(files, r.res[1].fileId, readOk) ELSE <<>>
     IN  /\ hit \/ (idxOk /\ readOk)
         /\ idxOk \/ MayFail("promote")
         /\ store' = r.store
         /\ index' = r.index
         /\ pending' = IF body = <<>> THEN [pending EXCEPT ![u] = @ + 1] ELSE pending
         /\ recency' = IF hit
                       THEN Append(Without(recency, r.res[1].fileId), r.res[1].fileId)
                       ELSE recency
         /\ failed' = IF idxOk THEN failed ELSE failed \cup {"promote"}
         /\ last' = [Quiet EXCEPT !.op = "lookup", !.url = u,
                       !.bypass = QueryRefreshCache(u),
                       !.found = r.found, !.res = r.res, !.served = body,
                       !.ok = idxOk,
                       !.prior = PriorStore,
                       !.viaRestart = (last.op = "restart" /\ last.prior # <<>>)]
  /\ UNCHANGED <<files, now, nextId>>

Lookup(u, idxOk, readOk) == LookupAt(MaxInFlight, u, idxOk, readOk)

\* the test of line 141 passing every status
ShouldCacheAny(status) == TRUE

\* line 141: the response is stored
ShouldCache(status) == status = 200

(* handleRequest, lines 139-143: next() has returned with status 200, the  *)
(* response headers and the body, and cacheContent is called.              *)

Store(u, status, blobOk, idxOk) ==
  /\ pending[u] > 0
  /\ ShouldCache(status)
  /\ nextId < MaxIds
  /\ blobOk \/ idxOk
  /\ blobOk \/ MayFail("blob")
  /\ idxOk \/ MayFail("index")
  /\ LET id == nextId + 1
         out == Render(id)
         r == cacheContent(store, index, files, u, out.headers, out.body, id, now, blobOk, idxOk)
     IN  /\ store' = r.store
         /\ index' = r.index
         /\ files' = r.files
         /\ nextId' = id
         /\ recency' = IF r.stored = <<>> THEN recency ELSE Append(recency, id)
         /\ failed' = failed \cup (IF ~blobOk THEN {"blob"} ELSE IF ~idxOk THEN {"index"} ELSE {})
         /\ last' = [Quiet EXCEPT !.op = "store", !.url = u,
                       !.evicted = Gone(store, r.store), !.stored = r.stored,
                       !.ok = (blobOk /\ idxOk), !.status = status,
                       !.served = <<out.body>>, !.thrown = r.thrown]
  /\ pending' = [pending EXCEPT ![u] = @ - 1]
  /\ UNCHANGED now

(* handleRequest, lines 139-143: next() has returned with another status.  *)

Skip(u, status) ==
  /\ pending[u] > 0
  /\ ~ShouldCache(status)
  /\ pending' = [pending EXCEPT ![u] = @ - 1]
  /\ last' = [Quiet EXCEPT !.op = "skip", !.url = u, !.status = status,
                !.served = <<Render(nextId + 1).body>>]
  /\ UNCHANGED <<store, index, files, now, nextId, recency, failed>>

(* The process stops and a new FileCache is constructed: line 40.          *)

Restart ==
  /\ ~getStore(index).thrown
  /\ store' = getStore(index).store
  /\ index' = getStore(index).index
  /\ pending' = [u \in AllUrls |-> 0]
  /\ last' = [Quiet EXCEPT !.op = "restart", !.prior = PriorStore]
  /\ UNCHANGED <<files, now, nextId, recency, failed>>

(* Time passes.                                                            *)

Tick(t) ==
  /\ t > now
  /\ now' = t
  /\ last' = [Quiet EXCEPT !.op = "tick"]
  /\ UNCHANGED <<store, index, files, pending, nextId, recency, failed>>

Next ==
  \/ \E u \in Urls, idxFails \in BOOLEAN, readFails \in BOOLEAN :
       Lookup(u, ~idxFails, ~readFails)
  \/ \E u \in Urls, s \in Statuses, blobFails \in BOOLEAN, idxFails \in BOOLEAN :
       Store(u, s, ~blobFails, ~idxFails)
  \/ \E u \in Urls, s \in Statuses : Skip(u, s)
  \/ Restart
  \/ \E t \in Instants : Tick(t)

Spec == Init /\ [][Next]_vars

(* The cache without file failures and restarts, asked for the URLs of     *)
(* KeyUrls.                                                                *)

NextKeys ==
  \/ \E u \in KeyUrls : Lookup(u, TRUE, TRUE)
  \/ \E u \in KeyUrls, s \in Statuses : Store(u, s, TRUE, TRUE)
  \/ \E u \in KeyUrls, s \in Statuses : Skip(u, s)
  \/ \E t \in Instants : Tick(t)

SpecKeys == Init /\ [][NextKeys]_vars

----------------------------------------------------------------------------
(* Properties.  A step is recognised by the record it leaves in last; the  *)
(* clock does not move during a step of the cache, so now is the time of   *)
(* the step that last describes.                                           *)

StoreStep == last'.op = "store"

LookupStep == last'.op = "lookup"

RestartStep == last'.op = "restart"

\* x comes before y in recency: the most recent store or non-expired hit of
\* x is older than that of y
OlderUse(x, y) == PosOf(recency, x.fileId) < PosOf(recency, y.fileId)

\* s without the entry e
Minus(s, e) == SelectSeq(s, LAMBDA x : x # e)

(* C1: the in-memory store never holds more than CACHE_MAX_ENTRIES         *)
(* entries, whatever stores, lookups and reloads have happened.            *)
C1_Capacity == Len(store) <= CACHE_MAX_ENTRIES

\* a store into a full store has evicted and left the store full
C1_Witness ==
  /\ last.op = "store"
  /\ last.evicted # <<>>
  /\ Len(store) = CACHE_MAX_ENTRIES

(* C2: a lookup without bypass that comes right after a successful store   *)
(* of the same request key, within the TTL, returns the headers and the    *)
(* fileId that were just stored.                                           *)
C2_LookupAfterStore ==
  ( /\ last.op = "lookup"
    /\ ~last.bypass
    /\ ~last.viaRestart
    /\ last.prior # <<>>
    /\ last.prior[1].key = last.url
    /\ now <= GetTime(last.prior[1].entry.saved) + FILE_CACHE_TTL )
  => /\ last.res # <<>>
     /\ last.res[1].headers = last.prior[1].entry.headers
     /\ last.res[1].fileId = last.prior[1].entry.fileId

(* C3: no two entries of the store have the same url.                      *)
C3_KeyUnique ==
  \A i, j \in 1..Len(store) : i # j => store[i].url # store[j].url

C6_TtlLaw ==
  (last.op = "lookup" /\ last.found # <<>>)
  => ((last.res = <<>>) <=> (now > GetTime(last.found[1].saved) + FILE_CACHE_TTL))

\* a hit at saved + FILE_CACHE_TTL exactly
C6_Witness ==
  /\ last.op = "lookup"
  /\ last.res # <<>>
  /\ now = GetTime(last.res[1].saved) + FILE_CACHE_TTL

(* C7: a lookup with the bypass flag is a miss and leaves the store and    *)
(* the index file as they were.                                            *)
C7_Bypass ==
  [][ (LookupStep /\ last'.bypass)
      => /\ last'.res = <<>>
         /\ store' = store
         /\ index' = index ]_vars

\* a bypass lookup of a key for which the store holds a fresh entry that
\* is not the last one
C7_Witness ==
  /\ last.op = "lookup"
  /\ last.bypass
  /\ \E k \in 1..(Len(store) - 1) :
       /\ store[k].url = last.url
       /\ ~IsEntryExpired(store[k], now)

(* C8: while no file write has failed, the index file holds the in-memory  *)
(* store after every cache operation.                                      *)
C8_PersistedEqualsMemory == failed = {} => index = IndexOf(store)

(* C9: a lookup without bypass whose matching entry is expired is a miss,  *)
(* and afterwards the store is the store before it without that entry.     *)
C9_ExpiredRemoved ==
  [][ ( /\ LookupStep
        /\ last'.found # <<>>
        /\ now' > GetTime(last'.found[1].saved) + FILE_CACHE_TTL )
      => /\ last'.res = <<>>
         /\ last'.found[1] \notin Range(store')
         /\ store' = Minus(store, last'.found[1]) ]_vars

\* an expired entry has been taken out and another entry is still there
C9_Witness ==
  /\ last.op = "lookup"
  /\ last.found # <<>>
  /\ last.res = <<>>
  /\ last.found[1] \notin Range(store)
  /\ Len(store) > 0

(* C10: when the process restarts right after a store whose writes         *)
(* succeeded, the reloaded store has the order of the store before the     *)
(* restart, and a lookup without bypass of the stored key within the TTL   *)
(* returns the headers and the fileId that were stored.                    *)
C10_RestartDurability ==
  [][ /\ (RestartStep /\ last'.prior # <<>>)
         => FileIds(store') = FileIds(store)
      /\ ( /\ LookupStep
           /\ last'.viaRestart
           /\ ~last'.bypass
           /\ last'.prior[1].key = last'.url
           /\ now' <= GetTime(last'.prior[1].entry.saved) + FILE_CACHE_TTL )
         => /\ last'.res # <<>>
            /\ last'.res[1].headers = last'.prior[1].entry.headers
            /\ last'.res[1].fileId = last'.prior[1].entry.fileId ]_vars

(* The normalisation of lines 48-53 as a function of the URL: the URL is   *)
(* drawn at the start, and the one step normalises it, and it with each    *)
(* form of the bypass parameter appended.                                  *)

UrlTokens ==
  {"?", "&", "x=1", "refreshCache=true", "refreshCache=false", "REFRESHCACHE=TRUE"}

NormUrls ==
  UNION { { <<"/a">> \o q : q \in [1..n -> UrlTokens] } : n \in 0..MaxTokens }

WithRefreshTrue(u) == u \o <<"&", "refreshCache=true">>

WithRefreshFalse(u) == u \o <<"?", "refreshCache=false">>

InitNorm ==
  /\ store = <<>>
  /\ index = [st |-> "absent", entries |-> <<>>, dir |-> FALSE]
  /\ files = {}
  /\ pending = [u \in AllUrls |-> 0]
  /\ now = 0
  /\ nextId = 0
  /\ recency = <<>>
  /\ failed = {}
  /\ \E u \in NormUrls : last = [Quiet EXCEPT !.op = "url", !.url = u]

NormalizeUrl ==
  /\ last.op = "url"
  /\ last' = [last EXCEPT !.op = "normalize",
                 !.keys = << Normalize(last.url),
                             Normalize(WithRefreshTrue(last.url)),
                             Normalize(WithRefreshFalse(last.url)) >>]
  /\ UNCHANGED <<store, index, files, pending, now, nextId, recency, failed>>

NextNorm == NormalizeUrl

SpecNorm == InitNorm /\ [][NextNorm]_vars

\* the URL carries the bypass parameter in some letter case
HasRefresh(u) == \E i \in 1..Len(u) : u[i] \in RefreshTokens

EndsWithQuestionMark(u) == u[Len(u)] = "?"

OldIds == {11, 12}

OldEntries == { [saved |-> NewDate(0), headers |-> <<"headers", id>>,
                 fileId |-> id, url |-> <<"/a">>] : id \in OldIds }

OldStores ==
  UNION { { q \in [1..n -> OldEntries] :
              \A i, j \in 1..n : q[i].fileId = q[j].fileId => i = j }
          : n \in 0..CACHE_MAX_ENTRIES }

LoadIndexes ==
  { [st |-> "absent", entries |-> <<>>, dir |-> d] : d \in BOOLEAN }
  \cup { [st |-> k, entries |-> <<>>, dir |-> TRUE] : k \in {"unreadable", "corrupt"} }
  \cup { IndexOf(q) : q \in OldStores }

LoadUrls == { <<"/a">>, <<"/b">> }

InitLoad ==
  /\ store = <<>>
  /\ index \in LoadIndexes
  /\ files = { [fileId |-> id, body |-> <<"body", id>>] : id \in OldIds }
  /\ pending = [u \in AllUrls |-> 0]
  /\ now = 0
  /\ nextId = 0
  /\ recency = <<>>
  /\ failed = {}
  /\ last = [Quiet EXCEPT !.op = "boot"]

Load ==
  /\ last.op = "boot"
  /\ store' = getStore(index).store
  /\ index' = getStore(index).index
  /\ last' = [Quiet EXCEPT !.op = "load", !.thrown = getStore(index).thrown]
  /\ UNCHANGED <<files, pending, now, nextId, recency, failed>>

Serving == last.op # "boot" /\ ~last.thrown

NextLoad ==
  \/ Load
  \/ Serving /\ \E u \in LoadUrls : Lookup(u, TRUE, TRUE)
  \/ Serving /\ \E u \in LoadUrls, s \in Statuses : Store(u, s, TRUE, TRUE)
  \/ Serving /\ \E t \in Instants : Tick(t)

SpecLoad == InitLoad /\ [][NextLoad]_vars

LoadStep == last'.op = "load"

(* C13: when no index.json exists, the load creates the directory and an   *)
(* empty index and gives the empty store; when index.json exists and       *)
(* cannot be read or parsed, the load throws, index.json stays as it is,   *)
(* and nothing is served after it.                                         *)
C13_Load ==
  [][ /\ (LoadStep /\ index.st = "absent")
         => /\ store' = <<>>
            /\ index'.dir
            /\ index'.st = "ok"
            /\ Parse(index'.entries) = <<>>
            /\ ~last'.thrown
      /\ (LoadStep /\ index.st \in {"unreadable", "corrupt"})
         => /\ last'.thrown
            /\ index' = index
      /\ ~last.thrown ]_vars

C13_Witness ==
  /\ last.op = "load"
  /\ last.thrown
  /\ index.st = "corrupt"

\* the blob of entry e is on disk with body b
BlobIs(e, b) == [fileId |-> e.fileId, body |-> b] \in files

(* C14: whatever writes and reads of the cache fail, no step of            *)
(* handleRequest ends with an error thrown by the cache, and the body of   *)
(* the response is the blob of the entry found or what next() rendered     *)
(* for this request.                                                       *)
C14_NeverFailsRequest ==
  /\ last.op \in {"lookup", "store", "skip"} => ~last.thrown
  /\ (last.op = "lookup" /\ last.served # <<>>)
     => /\ last.res # <<>>
        /\ BlobIs(last.res[1], last.served[1])
  /\ last.op = "store" => last.served = <<Render(nextId).body>>
  /\ last.op = "skip" => last.served = <<Render(nextId + 1).body>>

C14_Witness ==
  /\ last.op = "store"
  /\ ~last.ok
  /\ last.served # <<>>
  /\ failed # {}

C16_ReadFailureAsMiss ==
  [][ ( /\ StoreStep
        /\ last.op = "lookup"
        /\ last.res # <<>>
        /\ last.served = <<>>
        /\ last'.url = last.url
        /\ last'.ok )
      => store' = Append(Evict(Minus(store, last.res[1])), last'.stored[1]) ]_vars

\* <fileId>.html of entry e is on disk
HasBlob(e) == \E f \in files : f.fileId = e.fileId

(* C17: from the empty store on, every entry of the store in memory and    *)
(* every entry of index.json names a fileId whose blob was written and     *)
(* is on disk.                                                             *)
C17_EntriesHaveBlobs ==
  /\ \A e \in Range(store) : HasBlob(e)
  /\ index.st = "ok" => \A e \in Range(Parse(index.entries)) : HasBlob(e)

C17_Witness ==
  /\ "blob" \in failed
  /\ Len(store) = CACHE_MAX_ENTRIES
  /\ Len(Parse(index.entries)) = CACHE_MAX_ENTRIES
  /\ \A e \in Range(store) : HasBlob(e)

SkipStep == last'.op = "skip"

(* C18: the response of a render is stored only when its status is 200;    *)
(* a request whose render ends with another status leaves the store in     *)
(* memory, index.json and the blobs as they were; and a request answered   *)
(* with the blob of its entry awaits no render and adds no entry.          *)
C18_OnlySuccessCached ==
  [][ /\ StoreStep => last'.status = 200
      /\ SkipStep
         => /\ last'.status # 200
            /\ store' = store
            /\ index' = index
            /\ files' = files
      /\ (LookupStep /\ last'.served # <<>>)
         => /\ pending' = pending
            /\ nextId' = nextId
            /\ files' = files
            /\ Range(store') = Range(store) ]_vars

C18_Witness ==
  /\ last.op = "skip"
  /\ last.status = 500
  /\ store # <<>>
  /\ index = IndexOf(store)

(* Several handlers at once: each runs from its start to await next()     *)
(* (one Lookup step), yields while the render runs, and runs from the      *)
(* return of next() to its end (one Store or Skip step); Node runs these   *)
(* pieces one at a time, in any order.  No file operation fails here.      *)

ConcUrls == { <<"/a">>, <<"/b">> }

NextConc ==
  \/ \E u \in ConcUrls : LookupAt(MaxHandlers, u, TRUE, TRUE)
  \/ \E u \in ConcUrls, s \in Statuses : Store(u, s, TRUE, TRUE)
  \/ \E u \in ConcUrls, s \in Statuses : Skip(u, s)
  \/ \E t \in Instants : Tick(t)

SpecConc == Init /\ [][NextConc]_vars

(* C19: with handlers interleaved at await next(), every store step        *)
(* evicts at most one entry, and none when the store is shorter than       *)
(* CACHE_MAX_ENTRIES when the step starts, and the store never grows       *)
(* beyond CACHE_MAX_ENTRIES.                                               *)
C19_InterleavedEviction ==
  [][ /\ StoreStep
         => /\ Len(last'.evicted) <= 1
            /\ Len(store) < CACHE_MAX_ENTRIES => last'.evicted = <<>>
            /\ Len(store') = Len(store) + 1 - Len(last'.evicted)
      /\ Len(store') <= CACHE_MAX_ENTRIES ]_vars

\* a store step that evicts while other handlers are still awaiting next()
C19_Witness ==
  /\ last.op = "store"
  /\ last.evicted # <<>>
  /\ InFlight >= 2

\* what identifies an entry and dates it, in memory and in index.json alike
Stamp(e) == [url |-> e.url, fileId |-> e.fileId, headers |-> e.headers,
             saved |-> GetTime(e.saved)]

Stamps(s) == { Stamp(e) : e \in Range(s) }

\* the entries in memory and in index.json
AllStamps(st, idx) ==
  Stamps(st) \cup (IF idx.st = "ok" THEN Stamps(Parse(idx.entries)) ELSE {})

(* C20: a hit returns an entry of the store as it is, with the saved,      *)
(* headers, fileId and url it had, and puts it last; no step changes       *)
(* these fields of an entry in memory or in index.json, and the only new   *)
(* entry is the one a store step saves at the time of that step; so a      *)
(* hit never returns an entry saved more than FILE_CACHE_TTL before it.    *)
C20_HitKeepsLifetime ==
  [][ /\ (LookupStep /\ last'.res # <<>>)
         => /\ last'.res[1] \in Range(store)
            /\ store'[Len(store')] = last'.res[1]
            /\ now' <= GetTime(last'.res[1].saved) + FILE_CACHE_TTL
      /\ AllStamps(store', index')
           \subseteq AllStamps(store, index)
                      \cup { Stamp(e) : e \in { x \in Range(last'.stored) :
                                                  StoreStep /\ GetTime(x.saved) = now } } ]_vars

\* a hit at the last instant of the entry's lifetime
C20_Witness ==
  /\ last.op = "lookup"
  /\ last.res # <<>>
  /\ now = GetTime(last.res[1].saved) + FILE_CACHE_TTL
  /\ store[Len(store)] = last.res[1]

(* C11: the key that the lookup compares with the store is the key under   *)
(* which the store saves the entry, so that the URL of a stored response   *)
(* finds its entry, also when its normalised form differs from it.         *)
C11_SameKey ==
  (last.op = "store" /\ last.stored # <<>> /\ ~QueryRefreshCache(last.url))
  => /\ LookupKey(last.url) = last.stored[1].url
     /\ FindIndex(store, LookupKey(last.url)) # 0

====
